---- MODULE Spec2Model ----
(***************************************************************************)
(* Model of the rating and aggregation engine of src/sales_report.py:      *)
(* Contacto, Venta and ReporteVentas.                                      *)
(*                                                                         *)
(* Strings are sequences of one-character symbols, so that split, replace, *)
(* strip, lower and the '-'-joined deduplication key are computed as the   *)
(* code computes them.  An accented letter is one symbol ("a_acute") that  *)
(* NFD decomposes into its base letter and a combining mark.               *)
(*                                                                         *)
(* Money is exact rational arithmetic in fixed point: an amount x is held  *)
(* as the integer x * Scale.  Scale is chosen so that every division the   *)
(* code performs (by 1 + iva/100 for the configured rates, and the         *)
(* multiplication by 0.05) is exact on whole input amounts.  Rounding of   *)
(* binary floating point is therefore not modelled.                        *)
(*                                                                         *)
(* The pass-through columns Empresa and Vendedor and the cost_center tag   *)
(* (a lookup in a table of config.yaml) take no part in any computation    *)
(* and are left out of the records.                                        *)
(*                                                                         *)
(* Three specifications share the variables:                               *)
(*   Spec           the construction of a ReporteVentas, statement by      *)
(*                  statement, from tables loaded row by row;              *)
(*   CallSpec       one call of a single function of the engine on         *)
(*                  arguments drawn from bounded sets;                     *)
(*   DashboardSpec  the runs of main() in a browser session: login, the    *)
(*                  tax-rate select box, the memos of load_data and        *)
(*                  initialize_reporte, and st.session_state.              *)
(***************************************************************************)
EXTENDS Integers, Sequences, FiniteSets, TLC

\* ------------------------------------------------------------------------
\* Bounds of the model
\* ------------------------------------------------------------------------
MaxSales == 2
MaxUsers == 1
\* rows per table when a table lacks a column
MaxRowsMissingColumn == 1
\* characters of a name normalized on its own
MaxNameLen == 3
\* rows of a roster, and of a table, given to a function called on its own
MaxRoster == 2
MaxTable == 2

Scale == 113 * 20

\* ------------------------------------------------------------------------
\* String helpers (Python str methods)
\* ------------------------------------------------------------------------
StartsWithAt(s, i, pat) ==
    /\ i + Len(pat) - 1 <= Len(s)
    /\ SubSeq(s, i, i + Len(pat) - 1) = pat

RECURSIVE SplitAcc(_, _, _, _)
SplitAcc(s, sep, i, cur) ==
    IF i > Len(s) THEN << cur >>
    ELSE IF StartsWithAt(s, i, sep)
         THEN << cur >> \o SplitAcc(s, sep, i + Len(sep), << >>)
         ELSE SplitAcc(s, sep, i + 1, Append(cur, s[i]))

\* str.split(sep): non-overlapping, left to right; always at least one part
Split(s, sep) == SplitAcc(s, sep, 1, << >>)

RECURSIVE ReplaceFrom(_, _, _, _)
ReplaceFrom(s, old, new, i) ==
    IF i > Len(s) THEN << >>
    ELSE IF StartsWithAt(s, i, old)
         THEN new \o ReplaceFrom(s, old, new, i + Len(old))
         ELSE << s[i] >> \o ReplaceFrom(s, old, new, i + 1)

\* str.replace(old, new): every non-overlapping occurrence, left to right
Replace(s, old, new) == ReplaceFrom(s, old, new, 1)

\* str.isspace() of one symbol: the space and the tab
IsSpace(c) == c \in {" ", "tab"}

RECURSIVE LStrip(_)
LStrip(s) == IF s # << >> /\ IsSpace(Head(s)) THEN LStrip(Tail(s)) ELSE s

RECURSIVE RStrip(_)
RStrip(s) ==
    IF s # << >> /\ IsSpace(s[Len(s)]) THEN RStrip(SubSeq(s, 1, Len(s) - 1)) ELSE s

\* str.strip()
Strip(s) == RStrip(LStrip(s))

UpperAlphabet ==
    << "A", "B", "C", "D", "E", "F", "G", "H", "I", "J", "K", "L", "M",
       "N", "O", "P", "Q", "R", "S", "T", "U", "V", "W", "X", "Y", "Z" >>

LowerAlphabet ==
    << "a", "b", "c", "d", "e", "f", "g", "h", "i", "j", "k", "l", "m",
       "n", "o", "p", "q", "r", "s", "t", "u", "v", "w", "x", "y", "z" >>

\* str.lower() of one symbol
LowerChar(c) ==
    IF c = "A_acute" THEN "a_acute"
    ELSE IF \E i \in 1..26 : UpperAlphabet[i] = c
         THEN LowerAlphabet[CHOOSE i \in 1..26 : UpperAlphabet[i] = c]
         ELSE c

Lower(s) == [i \in 1..Len(s) |-> LowerChar(s[i])]

\* unicodedata.normalize('NFD', .) of one symbol
NFDChar(c) ==
    CASE c = "a_acute" -> << "a", "combining_acute" >>
      [] c = "A_acute" -> << "A", "combining_acute" >>
      [] OTHER -> << c >>

RECURSIVE NFD(_)
NFD(s) == IF s = << >> THEN << >> ELSE NFDChar(Head(s)) \o NFD(Tail(s))

\* unicodedata.category(c) == 'Mn'
IsMn(c) == c = "combining_acute"

RECURSIVE DropMn(_)
DropMn(s) ==
    IF s = << >> THEN << >>
    ELSE IF IsMn(Head(s)) THEN DropMn(Tail(s))
         ELSE << Head(s) >> \o DropMn(Tail(s))

\* ------------------------------------------------------------------------
\* String literals of the program
\* ------------------------------------------------------------------------
sDesconocido == << "D", "e", "s", "c", "o", "n", "o", "c", "i", "d", "o" >>
sNoEspecificado == << "N", "o", " ", "e", "s", "p", "e", "c", "i", "f", "i", "c", "a", "d", "o" >>
sASEAVNA_ == << "A", "S", "E", "A", "V", "N", "A", " " >>
sCommaSpace == << ",", " " >>
sDash == << "-" >>
sSpace == << " " >>
sEmpty == << >>
sAlmuerzo == << "A", "l", "m", "u", "e", "r", "z", "o", " ", "E", "j", "e", "c", "u", "t", "i", "v", "o", " ", "A", "s", "e", "a", "v", "n", "a" >>
sBEN1_70 == << "B", "E", "N", "1", "_", "7", "0" >>
sBEN2_62 == << "B", "E", "N", "2", "_", "6", "2" >>
sVisitas == << "A", "V", "N", "A", " ", "V", "I", "S", "I", "T", "A", "S" >>
sEnBlanco == << "(", "e", "n", " ", "b", "l", "a", "n", "c", "o", ")" >>
sOtros == << "O", "t", "r", "o", "s" >>
sTotalGeneral == << "T", "o", "t", "a", "l", " ", "g", "e", "n", "e", "r", "a", "l" >>

\* ------------------------------------------------------------------------
\* Cells of the input tables
\* ------------------------------------------------------------------------
\* a text cell: a string, or NaN (absent)
T(s) == [k |-> "str", s |-> s]
NullT == [k |-> "null", s |-> << >>]

\* a numeric cell: a number, NaN (absent), or text that float() rejects
N(v) == [k |-> "num", v |-> v]
NullN == [k |-> "null", v |-> 0]
BadN == [k |-> "str", v |-> 0]

\* pd.notna
notna(cell) == cell.k # "null"

\* ------------------------------------------------------------------------
\* class Contacto
\* ------------------------------------------------------------------------
\* Contacto._normalize_name
_normalize_name(name) ==
    Replace(DropMn(NFD(Lower(Strip(name)))), sSpace, sEmpty)

\* Contacto.__init__; the arguments are cells
Contacto(nombre, cedula, puesto, tipo) ==
    LET nom == IF nombre.k = "str" THEN Strip(nombre.s) ELSE sDesconocido
    IN  [ nombre |-> nom,
          cedula |-> IF notna(cedula) THEN cedula.s ELSE sDesconocido,
          puesto |-> IF notna(puesto) THEN puesto.s ELSE sNoEspecificado,
          tipo |-> IF notna(tipo) THEN tipo.s ELSE sDesconocido,
          normalized_name |-> _normalize_name(nom) ]

\* ------------------------------------------------------------------------
\* Configuration (config.yaml)
\* ------------------------------------------------------------------------
\* config['iva_rates']
IVA_RATES == {0, 13}

\* config['subsidy_rules']: category -> rule, amounts in whole colones
SUBSIDY_RULES ==
    (sBEN1_70 :> [subsidy |-> 2100, employee_payment |-> 1000, commission |-> 150])
    @@ (sBEN2_62 :> [subsidy |-> 1800, employee_payment |-> 1300, commission |-> 150])

\* ------------------------------------------------------------------------
\* class Venta
\* ------------------------------------------------------------------------
\* float(x) if pd.notna(x) else 0, in units of 1/unit; float() of text raises
FloatOk(cell) == cell.k # "str"
FloatOrZero(cell, unit) == IF cell.k = "num" THEN cell.v * unit ELSE 0

\* pd.to_datetime(fecha, format='%Y-%m-%d %H:%M:%S') inside try/except:
\* a timestamp for text in the format, None when parsing raises, and NaT
\* (no exception) for an absent value
ParseFecha(cell) ==
    CASE cell.k = "ok" -> "Timestamp"
      [] cell.k = "bad" -> "None"
      [] cell.k = "null" -> "NaT"

\* truth value of Venta.fecha: None is false; a Timestamp and NaT are true
FechaTruthy(fecha) == fecha # "None"

\* client_parts[0].replace('ASEAVNA ', '')
LabelTipo(cliente) == Replace(Split(cliente, sCommaSpace)[1], sASEAVNA_, sEmpty)

\* client_parts[1] if len(client_parts) > 1 else client_parts[0]
LabelName(cliente) ==
    LET client_parts == Split(cliente, sCommaSpace)
    IN  IF Len(client_parts) > 1 THEN client_parts[2] ELSE client_parts[1]

NoContacto == [nombre |-> << >>, cedula |-> << >>, puesto |-> << >>,
               tipo |-> << >>, normalized_name |-> << "None" >>]

\* line 87: the contact's tipo unless it is the sentinel, else the label's
ResolveTipo_ContactOnly(contacto_tipo, label_tipo) == contacto_tipo

ResolveTipo(contacto_tipo, label_tipo) ==
    IF contacto_tipo # sDesconocido THEN contacto_tipo ELSE label_tipo

\* Venta.__init__ when no float() raises; idx is the position of the row in
\* the input table (history, not a field of the program)
VentaInit(row, idx, contacto) ==
    LET cliente == IF notna(row.cliente) THEN row.cliente.s ELSE sDesconocido
        tipo0 == LabelTipo(cliente)
        client_name == LabelName(cliente)
        c == IF contacto # NoContacto THEN contacto
             ELSE Contacto(T(client_name), T(sDesconocido), T(sNoEspecificado), T(tipo0))
        total == FloatOrZero(row.total, Scale)
    IN  [ row |-> idx,
          cliente |-> cliente,
          display_name |-> client_name,
          fecha |-> ParseFecha(row.fecha),
          orden |-> IF notna(row.orden) THEN row.orden.s ELSE sEmpty,
          cantidad |-> FloatOrZero(row.cantidad, 1),
          precio_unitario |-> FloatOrZero(row.precio_unitario, Scale),
          total |-> total,
          producto |-> IF notna(row.producto) THEN row.producto.s ELSE sEmpty,
          name |-> c.nombre,
          cedula |-> c.cedula,
          position |-> c.puesto,
          tipo |-> ResolveTipo(c.tipo, tipo0),
          is_subsidized |-> (notna(row.producto) /\ row.producto.s = sAlmuerzo),
          subsidy |-> 0,
          employee_payment |-> total,
          employee_payment_base |-> 0,
          asoavna_commission |-> 0,
          iva |-> 0,
          client_credit |-> 0,
          aseavna_account |-> 0,
          base_price |-> 0 ]

\* the float() conversions of Venta.__init__ all succeed
VentaInitOk(row) ==
    FloatOk(row.cantidad) /\ FloatOk(row.precio_unitario) /\ FloatOk(row.total)

\* x / iva_factor with iva_factor = 1 + iva_rate / 100
DivIvaFactor(x, iva_rate) == (x * 100) \div (100 + iva_rate)

\* x * 0.05
Times005(x) == (x * 5) \div 100

\* the fixed list price of the subsidized product, and the commission used
\* when the rule gives none
ListPrice == 3100
DefaultCommission == 150

\* Venta.aplicar_subsidios_y_comisiones
aplicar_subsidios_y_comisiones(v, iva_rate) ==
    IF v.is_subsidized
    THEN LET total == ListPrice * Scale
             hasRule == v.tipo \in DOMAIN SUBSIDY_RULES
             subsidy == IF hasRule THEN SUBSIDY_RULES[v.tipo].subsidy * Scale ELSE 0
             employee_payment ==
                 IF hasRule THEN SUBSIDY_RULES[v.tipo].employee_payment * Scale
                 ELSE total
             commission ==
                 IF hasRule THEN SUBSIDY_RULES[v.tipo].commission * Scale
                 ELSE DefaultCommission * Scale
             base_price == DivIvaFactor(total, iva_rate)
         IN  [v EXCEPT !.total = total,
                       !.base_price = base_price,
                       !.iva = total - base_price,
                       !.subsidy = subsidy,
                       !.employee_payment = employee_payment,
                       !.employee_payment_base = DivIvaFactor(employee_payment, iva_rate),
                       !.asoavna_commission = commission,
                       !.client_credit = employee_payment,
                       !.aseavna_account = subsidy]
    ELSE LET base_price == DivIvaFactor(v.total, iva_rate)
         IN  [v EXCEPT !.base_price = base_price,
                       !.iva = v.total - base_price,
                       !.subsidy = 0,
                       !.employee_payment = v.total,
                       !.employee_payment_base = base_price,
                       !.asoavna_commission = Times005(v.total),
                       !.client_credit = v.total,
                       !.aseavna_account = 0]

\* Venta.to_dict: the columns of the rated table
to_dict(v) ==
    [ row |-> v.row,
      client |-> v.cliente,
      display_name |-> v.display_name,
      name |-> v.name,
      date |-> v.fecha,
      order |-> v.orden,
      quantity |-> v.cantidad,
      unit_price |-> v.precio_unitario,
      total |-> v.total,
      base_price |-> v.base_price,
      product |-> v.producto,
      cedula |-> v.cedula,
      position |-> v.position,
      tipo |-> v.tipo,
      is_subsidized |-> v.is_subsidized,
      subsidy |-> v.subsidy,
      employee_payment |-> v.employee_payment,
      employee_payment_base |-> v.employee_payment_base,
      asoavna_commission |-> v.asoavna_commission,
      iva |-> v.iva,
      client_credit |-> v.client_credit,
      aseavna_account |-> v.aseavna_account ]

\* ------------------------------------------------------------------------
\* class ReporteVentas
\* ------------------------------------------------------------------------
UserColumns == {"Nombre", "Cedula", "Puesto", "Tipo"}

SalesColumns ==
    {"Cliente", "Empresa", "Fecha de la orden", "Orden", "Cant. ordenada",
     "Precio unitario", "Total", "Variante del producto", "Vendedor"}

\* DataFrame.empty: no rows or no columns
Empty(df) == Len(df.rows) = 0 \/ df.columns = {}

Ok(v) == [err |-> "none", val |-> v]
Raise(e) == [err |-> e, val |-> << >>]

\* the rows kept by user_df['Nombre'].notna() & (.str.strip() != '')
KeepUser(u) == notna(u.Nombre) /\ Strip(u.Nombre.s) # sEmpty

RECURSIVE ContactDict(_, _)
\* the dict comprehension of _procesar_contactos: a later row replaces an
\* earlier one with the same key
ContactDict(rows, acc) ==
    IF rows = << >> THEN acc
    ELSE LET u == Head(rows)
             c == Contacto(u.Nombre, u.Cedula, u.Puesto, u.Tipo)
         IN  IF KeepUser(u)
             THEN ContactDict(Tail(rows), (c.normalized_name :> c) @@ acc)
             ELSE ContactDict(Tail(rows), acc)

\* ReporteVentas._procesar_contactos
_procesar_contactos(user_df) ==
    IF Empty(user_df) THEN Ok(<< >>)
    ELSE IF UserColumns \ user_df.columns # {} THEN Raise("ValueError")
    ELSE IF \A i \in 1..Len(user_df.rows) : ~notna(user_df.rows[i].Nombre)
         THEN Raise("AttributeError")   \* .str on a column without strings
    ELSE Ok(ContactDict(user_df.rows, << >>))

\* create_venta of _procesar_ventas
create_venta(row, idx, contactos) ==
    IF ~notna(row.cliente) THEN Raise("AttributeError")   \* NaN has no split
    ELSE LET client_name == LabelName(row.cliente.s)
             normalized_name == Contacto(T(client_name), NullT, NullT, NullT).normalized_name
             contacto == IF normalized_name \in DOMAIN contactos
                         THEN contactos[normalized_name] ELSE NoContacto
         IN  IF ~VentaInitOk(row) THEN Raise("ValueError")  \* float('abc')
             ELSE Ok(VentaInit(row, idx, contacto))

\* pd.notna(row['Total']) and row['Total'] != 0
TotalPasses(row) == notna(row.total) /\ ~(row.total.k = "num" /\ row.total.v = 0)

RECURSIVE VentasFrom(_, _, _, _)
\* the list comprehension of _procesar_ventas, row by row
VentasFrom(rows, i, contactos, acc) ==
    IF i > Len(rows) THEN Ok(acc)
    ELSE IF ~TotalPasses(rows[i]) THEN VentasFrom(rows, i + 1, contactos, acc)
    ELSE LET r == create_venta(rows[i], i, contactos)
         IN  IF r.err # "none" THEN r
             ELSE IF FechaTruthy(r.val.fecha)
                  THEN VentasFrom(rows, i + 1, contactos, Append(acc, r.val))
                  ELSE VentasFrom(rows, i + 1, contactos, acc)

\* ReporteVentas._procesar_ventas
_procesar_ventas(sales_df, contactos) ==
    IF Empty(sales_df) THEN Ok(<< >>)
    ELSE IF SalesColumns \ sales_df.columns # {} THEN Raise("ValueError")
    ELSE VentasFrom(sales_df.rows, 1, contactos, << >>)

\* _aplicar_subsidios_y_comisiones without the list-price override of total
_aplicar_NoOverride(vs, iva_rate) ==
    [i \in 1..Len(vs) |->
        [aplicar_subsidios_y_comisiones(vs[i], iva_rate) EXCEPT !.total = vs[i].total]]

\* _aplicar_subsidios_y_comisiones with the 5% taken on the pre-tax price
_aplicar_CommissionOnBase(vs, iva_rate) ==
    [i \in 1..Len(vs) |->
        LET r == aplicar_subsidios_y_comisiones(vs[i], iva_rate)
        IN  IF r.is_subsidized THEN r
            ELSE [r EXCEPT !.asoavna_commission = Times005(r.base_price)]]

\* _aplicar_subsidios_y_comisiones without lines 107-108: the base price and
\* the tax stay those of the total before the override
_aplicar_StaleBase(vs, iva_rate) ==
    [i \in 1..Len(vs) |->
        LET b == DivIvaFactor(vs[i].total, iva_rate)
        IN  [aplicar_subsidios_y_comisiones(vs[i], iva_rate)
                EXCEPT !.base_price = b, !.iva = vs[i].total - b]]

\* _aplicar_subsidios_y_comisiones with the base price and the tax of a
\* subsidized line taken from the employee payment instead of the total
_aplicar_BaseOfPayment(vs, iva_rate) ==
    [i \in 1..Len(vs) |->
        LET r == aplicar_subsidios_y_comisiones(vs[i], iva_rate)
            b == DivIvaFactor(r.employee_payment, iva_rate)
        IN  IF r.is_subsidized
            THEN [r EXCEPT !.base_price = b, !.iva = r.employee_payment - b]
            ELSE r]

\* ReporteVentas._aplicar_subsidios_y_comisiones
_aplicar_subsidios_y_comisiones(vs, iva_rate) ==
    [i \in 1..Len(vs) |-> aplicar_subsidios_y_comisiones(vs[i], iva_rate)]

\* df['order'] + '-' + df['client'] + '-' + df['product']
Key(d) == d.order \o sDash \o d.client \o sDash \o d.product

\* drop_duplicates(subset='key') keeping the last row of each key
_crear_dataframe_KeepLast(vs) ==
    LET df == [i \in 1..Len(vs) |-> to_dict(vs[i])]
        idx == SelectSeq([i \in 1..Len(df) |-> i],
                         LAMBDA i : \A j \in (i + 1)..Len(df) : Key(df[j]) # Key(df[i]))
    IN  [k \in 1..Len(idx) |-> df[idx[k]]]

\* ReporteVentas._crear_dataframe: drop_duplicates keeps the first row of a key
_crear_dataframe(vs) ==
    LET df == [i \in 1..Len(vs) |-> to_dict(vs[i])]
        idx == SelectSeq([i \in 1..Len(df) |-> i],
                         LAMBDA i : \A j \in 1..(i - 1) : Key(df[j]) # Key(df[i]))
    IN  [k \in 1..Len(idx) |-> df[idx[k]]]

\* ------------------------------------------------------------------------
\* Order of str values: Python compares strings code point by code point
\* ------------------------------------------------------------------------
\* the characters of the tables, in increasing code point order
CodeOrder ==
    << "tab", " ", "(", ")", ",", "-",
       "0", "1", "2", "3", "4", "5", "6", "7", "8", "9" >>
    \o UpperAlphabet \o << "_" >> \o LowerAlphabet
    \o << "A_acute", "a_acute", "combining_acute" >>

CodePoint(c) == CHOOSE i \in 1..Len(CodeOrder) : CodeOrder[i] = c

RECURSIVE StrLess(_, _)
\* a < b for two str
StrLess(a, b) ==
    IF b = << >> THEN FALSE
    ELSE IF a = << >> THEN TRUE
    ELSE IF Head(a) = Head(b) THEN StrLess(Tail(a), Tail(b))
    ELSE CodePoint(Head(a)) < CodePoint(Head(b))

RECURSIVE KeyLess(_, _)
\* a < b for two tuples of str: the order of a sort on several columns
KeyLess(a, b) ==
    IF b = << >> THEN FALSE
    ELSE IF a = << >> THEN TRUE
    ELSE IF Head(a) = Head(b) THEN KeyLess(Tail(a), Tail(b))
    ELSE StrLess(Head(a), Head(b))

RECURSIVE SortKeys(_)
\* the distinct keys of a set, in increasing order
SortKeys(S) ==
    IF S = {} THEN << >>
    ELSE LET m == CHOOSE x \in S : \A y \in S \ {x} : KeyLess(x, y)
         IN  << m >> \o SortKeys(S \ {m})

RECURSIVE Sum(_)
\* Series.sum()
Sum(s) == IF s = << >> THEN 0 ELSE Head(s) + Sum(Tail(s))

\* ------------------------------------------------------------------------
\* ReporteVentas: the row-labeled report
\* ------------------------------------------------------------------------
\* a cell of the report that holds the empty string
Blank == [k |-> "blank", v |-> 0]

Label(empleado, producto, cantidad, cliente, subsidiado) ==
    [ Empleado |-> empleado, Producto |-> producto, Cantidad |-> cantidad,
      MontoCliente |-> cliente, MontoSubsidiado |-> subsidiado ]

GroupKey(d) == << d.client, d.display_name, d.tipo, d.product >>

\* df.groupby([client, display_name, tipo, product]).agg(sum).reset_index():
\* one row per key, in increasing key order
Grouped(df) ==
    LET keys == SortKeys({ GroupKey(df[i]) : i \in 1..Len(df) })
        Of(key, col) ==
            Sum([i \in 1..Len(df) |->
                    IF GroupKey(df[i]) = key THEN df[i][col] ELSE 0])
    IN  [g \in 1..Len(keys) |->
            [ client |-> keys[g][1], display_name |-> keys[g][2],
              tipo |-> keys[g][3], product |-> keys[g][4],
              quantity |-> Of(keys[g], "quantity"),
              client_credit |-> Of(keys[g], "client_credit"),
              aseavna_account |-> Of(keys[g], "aseavna_account") ]]

\* the header row of a category
HeaderLabel(tipo) == Label(sASEAVNA_ \o tipo, sEmpty, Blank, Blank, Blank)

\* the data row of a group
DataLabel(row) ==
    Label(row.display_name, row.product, N(row.quantity),
          N(row.client_credit * row.quantity),
          N(row.aseavna_account * row.quantity))

\* the header of a category and its groups sorted by (client, product); a
\* category has one group per (client, product), display_name being a part
\* of client
TipoBlock(grouped, tipo) ==
    LET tipo_data == SelectSeq(grouped, LAMBDA r : r.tipo = tipo)
        order == SortKeys({ << tipo_data[g].client, tipo_data[g].product >> :
                            g \in 1..Len(tipo_data) })
        At(key) == CHOOSE g \in 1..Len(tipo_data) :
                      << tipo_data[g].client, tipo_data[g].product >> = key
    IN  << HeaderLabel(tipo) >>
        \o [k \in 1..Len(order) |-> DataLabel(tipo_data[At(order[k])])]

RECURSIVE TipoBlocks(_, _)
\* for tipo in sorted(tipos)
TipoBlocks(grouped, sorted) ==
    IF sorted = << >> THEN << >>
    ELSE TipoBlock(grouped, Head(sorted)[1]) \o TipoBlocks(grouped, Tail(sorted))

expected_tipos == << sBEN1_70, sBEN2_62, sVisitas >>

PlaceholderLabel(tipo) == Label(sASEAVNA_ \o tipo, sEnBlanco, N(0), N(0), N(0))

\* Placeholders without the test `tipo not in tipos`
Placeholders_All(tipos) ==
    [k \in 1..Len(expected_tipos) |-> PlaceholderLabel(expected_tipos[k])]

\* the placeholder rows of the expected categories not in tipos
Placeholders(tipos) ==
    LET absent == SelectSeq(expected_tipos, LAMBDA t : t \notin tipos)
    IN  [k \in 1..Len(absent) |-> PlaceholderLabel(absent[k])]

\* TotalLabel with the sums of the amounts of the groups, not multiplied by
\* their quantities
TotalLabel_PerUnit(grouped) ==
    Label(sTotalGeneral, sEmpty,
          N(Sum([g \in 1..Len(grouped) |-> grouped[g].quantity])),
          N(Sum([g \in 1..Len(grouped) |-> grouped[g].client_credit])),
          N(Sum([g \in 1..Len(grouped) |-> grouped[g].aseavna_account])))

\* the 'Total general' row
TotalLabel(grouped) ==
    Label(sTotalGeneral, sEmpty,
          N(Sum([g \in 1..Len(grouped) |-> grouped[g].quantity])),
          N(Sum([g \in 1..Len(grouped) |->
                    grouped[g].client_credit * grouped[g].quantity])),
          N(Sum([g \in 1..Len(grouped) |->
                    grouped[g].aseavna_account * grouped[g].quantity])))

\* ReporteVentas._generar_etiquetas_fila; the empty frame is a frame of the
\* five columns without rows
_generar_etiquetas_fila(df) ==
    IF df = << >> THEN << >>
    ELSE LET grouped == Grouped(df)
             tipos == { grouped[g].tipo : g \in 1..Len(grouped) }
         IN  TipoBlocks(grouped, SortKeys({ << t >> : t \in tipos }))
             \o Placeholders(tipos)
             \o << TotalLabel(grouped) >>

\* ------------------------------------------------------------------------
\* ReporteVentas: billing, commissions, per-client reports
\* ------------------------------------------------------------------------
BucketKeys == { sBEN1_70, sBEN2_62, sOtros }

\* key = row['tipo'] if row['tipo'] in ['BEN1_70', 'BEN2_62'] else 'Otros'
BucketKey(d) == IF d.tipo \in { sBEN1_70, sBEN2_62 } THEN d.tipo ELSE sOtros

ZeroBucket ==
    [ count |-> 0, subsidy |-> 0, employee_payment |-> 0, iva |-> 0,
      commission |-> 0 ]

\* Bucket with the commission added before the rows that are not subsidized
\* are skipped
Bucket_CommissionOfAll(df, key) ==
    LET Of(col) ==
            Sum([i \in 1..Len(df) |->
                    IF df[i].is_subsidized /\ BucketKey(df[i]) = key
                    THEN df[i][col] * df[i].quantity ELSE 0])
    IN  [ count |-> Sum([i \in 1..Len(df) |->
                            IF df[i].is_subsidized /\ BucketKey(df[i]) = key
                            THEN df[i].quantity ELSE 0]),
          subsidy |-> Of("subsidy"),
          employee_payment |-> Of("employee_payment_base"),
          iva |-> Of("iva"),
          commission |->
              Sum([i \in 1..Len(df) |->
                      IF BucketKey(df[i]) = key
                      THEN df[i].asoavna_commission * df[i].quantity ELSE 0]) ]

\* what the loop over the rows adds to the bucket of a key: the rows that
\* are not subsidized are skipped before any bucket is touched
Bucket(df, key) ==
    LET Of(col) ==
            Sum([i \in 1..Len(df) |->
                    IF df[i].is_subsidized /\ BucketKey(df[i]) = key
                    THEN df[i][col] * df[i].quantity ELSE 0])
    IN  [ count |-> Sum([i \in 1..Len(df) |->
                            IF df[i].is_subsidized /\ BucketKey(df[i]) = key
                            THEN df[i].quantity ELSE 0]),
          subsidy |-> Of("subsidy"),
          employee_payment |-> Of("employee_payment_base"),
          iva |-> Of("iva"),
          commission |-> Of("asoavna_commission") ]

RECURSIVE GCD(_, _)
\* the greatest common divisor of a and b, for b >= 0
GCD(a, b) == IF b = 0 THEN (IF a < 0 THEN -a ELSE a) ELSE GCD(b, a % b)

\* the value num / den of a float, as a fraction in lowest terms; den > 0
Fraction(num, den) ==
    LET g == GCD(num, den) IN [num |-> num \div g, den |-> den \div g]

\* Percentage without the factor 100
Percentage_Ratio(subsidy, total) ==
    IF total > 0 THEN Fraction(subsidy, total) ELSE Fraction(0, 1)

\* (subsidy / total * 100) if total > 0 else 0
Percentage(subsidy, total) ==
    IF total > 0
    THEN LET r == Fraction(subsidy, total) IN Fraction(r.num * 100, r.den)
    ELSE Fraction(0, 1)

Billing(buckets, total_commission) ==
    LET total_ben1 == buckets[sBEN1_70].subsidy + buckets[sBEN1_70].employee_payment
        total_ben2 == buckets[sBEN2_62].subsidy + buckets[sBEN2_62].employee_payment
        keys == << sBEN1_70, sBEN2_62, sOtros >>
        Total(col) == Sum([k \in 1..3 |-> buckets[keys[k]][col]])
    IN  [ facturacion |-> buckets,
          subsidy_percentage_ben1 |-> Percentage(buckets[sBEN1_70].subsidy, total_ben1),
          subsidy_percentage_ben2 |-> Percentage(buckets[sBEN2_62].subsidy, total_ben2),
          total_subsidy |-> Total("subsidy"),
          total_employee_payment |-> Total("employee_payment"),
          total_iva |-> Total("iva"),
          total_commission |-> total_commission,
          total_commission_subsidized |-> Total("commission") ]

\* _calcular_facturacion with total_commission accumulated after the rows
\* that are not subsidized are skipped
_calcular_facturacion_SubsidizedCommission(df) ==
    IF df = << >>
    THEN [ facturacion |-> [key \in BucketKeys |-> ZeroBucket],
           subsidy_percentage_ben1 |-> Fraction(0, 1),
           subsidy_percentage_ben2 |-> Fraction(0, 1),
           total_subsidy |-> 0, total_employee_payment |-> 0, total_iva |-> 0,
           total_commission |-> 0, total_commission_subsidized |-> 0 ]
    ELSE Billing([key \in BucketKeys |-> Bucket(df, key)],
                 Sum([i \in 1..Len(df) |->
                         IF df[i].is_subsidized
                         THEN df[i].asoavna_commission * df[i].quantity ELSE 0]))

\* ReporteVentas._calcular_facturacion
_calcular_facturacion(df) ==
    IF df = << >>
    THEN [ facturacion |-> [key \in BucketKeys |-> ZeroBucket],
           subsidy_percentage_ben1 |-> Fraction(0, 1),
           subsidy_percentage_ben2 |-> Fraction(0, 1),
           total_subsidy |-> 0, total_employee_payment |-> 0, total_iva |-> 0,
           total_commission |-> 0, total_commission_subsidized |-> 0 ]
    ELSE Billing([key \in BucketKeys |-> Bucket(df, key)],
                 Sum([i \in 1..Len(df) |->
                         df[i].asoavna_commission * df[i].quantity]))

\* a row of the table of non-subsidized commissions
ComisionRow(d) ==
    [ client |-> d.client, display_name |-> d.display_name,
      product |-> d.product,
      total |-> d.total * d.quantity,
      base_price |-> d.base_price * d.quantity,
      asoavna_commission |-> d.asoavna_commission * d.quantity,
      iva |-> d.iva * d.quantity ]

\* ReporteVentas._calcular_comisiones_no_subsidiadas: the table and the total
_calcular_comisiones_no_subsidiadas(df) ==
    IF df = << >> THEN [comisiones |-> << >>, total_comision |-> 0]
    ELSE LET rows == SelectSeq(df, LAMBDA d : ~d.is_subsidized)
         IN  [ comisiones |-> [k \in 1..Len(rows) |-> ComisionRow(rows[k])],
               total_comision |->
                   Sum([k \in 1..Len(rows) |->
                           rows[k].asoavna_commission * rows[k].quantity]) ]

\* the report of one group of df.groupby('client')
ReporteIndividual(group) ==
    [ transacciones |-> group,
      subsidized |-> SelectSeq(group, LAMBDA d : d.is_subsidized),
      non_subsidized |-> SelectSeq(group, LAMBDA d : ~d.is_subsidized),
      total_client_credit |->
          Sum([k \in 1..Len(group) |-> group[k].client_credit * group[k].quantity]),
      total_aseavna_account |->
          Sum([k \in 1..Len(group) |-> group[k].aseavna_account * group[k].quantity]) ]

\* ReporteVentas._generar_reportes_individuales: client -> report
_generar_reportes_individuales(df) ==
    IF df = << >> THEN << >>
    ELSE [ client \in { df[i].client : i \in 1..Len(df) } |->
              ReporteIndividual(SelectSeq(df, LAMBDA d : d.client = client)) ]

\* ReporteVentas.__init__ as one computation: the object built, or the
\* exception that leaves it
ReporteVentas(sdf, udf, rate) ==
    LET c == _procesar_contactos(udf)
    IN  IF c.err # "none" THEN Raise(c.err)
        ELSE LET v == _procesar_ventas(sdf, c.val)
             IN  IF v.err # "none" THEN Raise(v.err)
                 ELSE LET rated == _aplicar_subsidios_y_comisiones(v.val, rate)
                          df == _crear_dataframe(rated)
                      IN  Ok([ iva_rate |-> rate,
                               contactos |-> c.val,
                               ventas |-> rated,
                               datos |-> df,
                               etiquetas_fila |-> _generar_etiquetas_fila(df),
                               facturacion |-> _calcular_facturacion(df),
                               comisiones_no_subsidiadas |->
                                   _calcular_comisiones_no_subsidiadas(df),
                               reportes_individuales |->
                                   _generar_reportes_individuales(df) ])

\* ------------------------------------------------------------------------
\* Input tables: the rows the model loads
\* ------------------------------------------------------------------------
sAna == << "A", "n", "a" >>
sAnaAccent == << "A", "n", "a_acute" >>
sEva == << "E", "v", "a" >>
sCoca == << "C", "o", "c", "a", "-", "C", "o", "l", "a" >>
sOrdenA == << "A", "1" >>
sOrdenB == << "B", "-", "2" >>
sJefe == << "J", "e", "f", "e" >>
sCedula1 == << "1", "-", "1" >>

LabelAna == sASEAVNA_ \o sBEN1_70 \o sCommaSpace \o sAna
LabelEva == sASEAVNA_ \o sBEN2_62 \o sCommaSpace \o sEva

SaleRow(cliente, fecha, orden, cantidad, precio_unitario, total, producto) ==
    [ cliente |-> cliente, fecha |-> [k |-> fecha], orden |-> orden,
      cantidad |-> cantidad, precio_unitario |-> precio_unitario,
      total |-> total, producto |-> producto ]

\* a subsidized lunch of a beneficiary, its duplicate with another quantity,
\* and the same line with a zero total
RowLunch == SaleRow(T(LabelAna), "ok", T(sOrdenA), N(1), N(3100), N(3100), T(sAlmuerzo))
RowLunchTwice == SaleRow(T(LabelAna), "ok", T(sOrdenA), N(2), N(3100), N(6200), T(sAlmuerzo))
RowLunchZero == SaleRow(T(LabelAna), "ok", T(sOrdenA), N(1), N(0), N(0), T(sAlmuerzo))
\* a drink, with quantity and unit price absent; the same line with an absent
\* date, with a date in another format, and with an absent total
RowDrink == SaleRow(T(LabelEva), "ok", T(sOrdenB), NullN, NullN, N(600), T(sCoca))
RowDrinkNoDate == SaleRow(T(LabelEva), "null", T(sOrdenB), N(1), N(600), N(600), T(sCoca))
RowDrinkBadDate == SaleRow(T(LabelEva), "bad", T(sOrdenB), N(1), N(600), N(600), T(sCoca))
RowDrinkNoTotal == SaleRow(T(LabelEva), "ok", T(sOrdenB), N(1), N(600), NullN, T(sCoca))
\* a lunch bought by a visitor: a label without separator, a category without rule
RowVisitorLunch == SaleRow(T(sVisitas), "ok", T(sOrdenA), N(1), N(2500), N(2500), T(sAlmuerzo))
\* the return of a lunch in another order: a negative quantity and total
RowLunchRefund == SaleRow(T(LabelAna), "ok", T(sOrdenB), N(-1), N(3100), N(-3100), T(sAlmuerzo))
\* rows with an absent client label and with a total that is not a number,
\* the second with the order, label and product of the drink
RowNoClient == SaleRow(NullT, "ok", T(sOrdenB), N(1), N(600), N(600), T(sCoca))
RowBadTotal == SaleRow(T(LabelEva), "ok", T(sOrdenB), N(1), N(600), BadN, T(sCoca))

SaleRows ==
    { RowLunch, RowLunchTwice, RowLunchZero, RowDrink, RowDrinkNoDate,
      RowDrinkBadDate, RowDrinkNoTotal, RowVisitorLunch, RowLunchRefund,
      RowNoClient, RowBadTotal }

UserRow(nombre, cedula, puesto, tipo) ==
    [ Nombre |-> nombre, Cedula |-> cedula, Puesto |-> puesto, Tipo |-> tipo ]

\* Ana, written with an accent and in another category than her labels say,
\* and Eva, of whom the roster has only the name
UserAna == UserRow(T(sAnaAccent), T(sCedula1), T(sJefe), T(sBEN2_62))
UserEva == UserRow(T(sEva), NullT, NullT, NullT)

UserRows == { UserAna, UserEva }

\* the columns a loaded table may lack
DroppableSales == {"Total"}
DroppableUsers == {"Tipo"}

\* ---- inputs of the calls of single functions ----
\* Ana in the category of her labels
UserAnaBen1 == UserRow(T(sAna), T(sCedula1), T(sJefe), T(sBEN1_70))
\* roster rows with an absent name and with a name of white space only
UserNoName == UserRow(NullT, T(sCedula1), T(sJefe), T(sBEN1_70))
UserBlankName == UserRow(T(<< " ", "tab" >>), T(sCedula1), T(sJefe), T(sBEN2_62))

RosterRows == { UserAna, UserAnaBen1, UserEva, UserNoName, UserBlankName }

sCola == << "C", "o", "l", "a" >>
sEvaCoca == << "E", "v", "a", "-", "C", "o", "c", "a" >>
\* two drinks of one order whose labels and products share their characters
RowEvaCocaCola == SaleRow(T(sEva), "ok", T(sOrdenA), N(1), N(600), N(600), T(sCoca))
RowEvaCocaDashCola == SaleRow(T(sEvaCoca), "ok", T(sOrdenA), N(1), N(500), N(500), T(sCola))

TableRows == { RowLunch, RowLunchTwice, RowDrink, RowEvaCocaCola, RowEvaCocaDashCola }

\* the lines rated one by one
LineRows ==
    { RowLunch, RowLunchTwice, RowLunchRefund, RowVisitorLunch, RowDrink,
      RowEvaCocaCola }

\* the characters of the names normalized
NameAlphabet == { " ", "tab", "A", "a", "a_acute", "combining_acute" }

\* the sequences over S of at most n elements
SeqUpTo(S, n) == UNION { [1..k -> S] : k \in 0..n }

\* ------------------------------------------------------------------------
\* State
\* ------------------------------------------------------------------------
VARIABLES
    sales_df,     \* the transaction table: the columns present, and the rows
    user_df,      \* the roster table
    iva_rate,     \* ReporteVentas.iva_rate
    pc,           \* position in ReporteVentas.__init__
    contactos,    \* ReporteVentas.contactos: normalized name -> Contacto
    ventas,       \* ReporteVentas.ventas
    datos,        \* ReporteVentas.datos
    error,        \* the exception that ended __init__, or "none"
    iva_given,    \* FALSE when the iva_rate argument is None or not a number
    etiquetas_fila,               \* ReporteVentas.etiquetas_fila
    facturacion,                  \* ReporteVentas.facturacion
    comisiones_no_subsidiadas,    \* ReporteVentas.comisiones_no_subsidiadas
    reportes_individuales,        \* ReporteVentas.reportes_individuales
    \* one call of a function of the engine on its own
    call,         \* the function called and its arguments
    result,       \* what the call returned, or NotCalled
    \* one browser session of main()
    session_state,            \* st.session_state: key -> value
    iva_rate_select,          \* the value of the widget with key "iva_rate_select"
    at,                       \* position of the running script in main(), or "idle"
    click,                    \* the button pressed that started this run, if any
    view,                     \* the form that the Login tab shows
    files,                    \* sales_data.csv and users_data.csv on disk
    load_data_cache,          \* the memo of @st.cache_data load_data
    initialize_reporte_cache, \* the memo of @st.cache_resource initialize_reporte
    builds,                   \* history: ReporteVentas objects constructed, per arguments
    reporte                   \* the local variable reporte of main(), line 619

reports ==
    << etiquetas_fila, facturacion, comisiones_no_subsidiadas, reportes_individuales >>

engine ==
    << sales_df, user_df, iva_rate, pc, contactos, ventas, datos, error,
       iva_given, reports >>

harness == << call, result >>

dashboard ==
    << session_state, iva_rate_select, at, click, view, files, load_data_cache,
       initialize_reporte_cache, builds, reporte >>

vars == << engine, harness, dashboard >>

\* no ReporteVentas under construction
EngineIdle ==
    /\ sales_df = [columns |-> SalesColumns, rows |-> << >>]
    /\ user_df = [columns |-> UserColumns, rows |-> << >>]
    /\ iva_rate = 0
    /\ pc = "input"
    /\ contactos = << >>
    /\ ventas = << >>
    /\ datos = << >>
    /\ error = "none"
    /\ iva_given = TRUE
    /\ etiquetas_fila = << >>
    /\ facturacion = << >>
    /\ comisiones_no_subsidiadas = << >>
    /\ reportes_individuales = << >>

NoCall == [fn |-> "none"]
NotCalled == [err |-> "not called", val |-> << >>]

\* no function called on its own
HarnessIdle == call = NoCall /\ result = NotCalled

\* Python's None, and a local variable that is not bound
None == [k |-> "None"]
Unbound == [k |-> "unbound"]

\* no widget with the key is on the page
NoWidget == [id |-> -1, value |-> -1]
NoClick == [button |-> "none"]
\* the two files cannot be read
NoFiles == [k |-> "missing"]
NotLoaded == [k |-> "not loaded"]

\* no browser session open
DashboardIdle ==
    /\ session_state = << >>
    /\ iva_rate_select = NoWidget
    /\ at = "idle"
    /\ click = NoClick
    /\ view = "none"
    /\ files = NoFiles
    /\ load_data_cache = NotLoaded
    /\ initialize_reporte_cache = << >>
    /\ builds = << >>
    /\ reporte = Unbound

Init == EngineIdle /\ HarnessIdle /\ DashboardIdle

AllColumns == sales_df.columns = SalesColumns /\ user_df.columns = UserColumns

Min(a, b) == IF a < b THEN a ELSE b

\* ---- the input tables, as load_data reads them ----
LoadSaleRow ==
    /\ pc = "input"
    /\ Len(sales_df.rows) < (IF AllColumns THEN MaxSales ELSE Min(MaxSales, MaxRowsMissingColumn))
    /\ \E r \in SaleRows : sales_df' = [sales_df EXCEPT !.rows = Append(@, r)]
    /\ UNCHANGED << harness, dashboard, user_df, iva_rate, iva_given, pc, contactos, ventas, datos, reports, error >>

LoadUserRow ==
    /\ pc = "input"
    /\ Len(user_df.rows) < (IF AllColumns THEN MaxUsers ELSE Min(MaxUsers, MaxRowsMissingColumn))
    /\ \E u \in UserRows : user_df' = [user_df EXCEPT !.rows = Append(@, u)]
    /\ UNCHANGED << harness, dashboard, sales_df, iva_rate, iva_given, pc, contactos, ventas, datos, reports, error >>

DropSalesColumn ==
    /\ pc = "input"
    /\ sales_df.columns = SalesColumns
    /\ Len(sales_df.rows) <= MaxRowsMissingColumn
    /\ Len(user_df.rows) <= MaxRowsMissingColumn
    /\ \E c \in DroppableSales : sales_df' = [sales_df EXCEPT !.columns = @ \ {c}]
    /\ UNCHANGED << harness, dashboard, user_df, iva_rate, iva_given, pc, contactos, ventas, datos, reports, error >>

DropUserColumn ==
    /\ pc = "input"
    /\ user_df.columns = UserColumns
    /\ Len(sales_df.rows) <= MaxRowsMissingColumn
    /\ Len(user_df.rows) <= MaxRowsMissingColumn
    /\ \E c \in DroppableUsers : user_df' = [user_df EXCEPT !.columns = @ \ {c}]
    /\ UNCHANGED << harness, dashboard, sales_df, iva_rate, iva_given, pc, contactos, ventas, datos, reports, error >>

\* ---- ReporteVentas.__init__, statement by statement ----
Fail(e) ==
    /\ pc' = "failed"
    /\ error' = e

\* self.iva_rate = iva_rate: a configured rate, or None
Construct ==
    /\ pc = "input"
    /\ \/ \E r \in IVA_RATES : iva_rate' = r /\ iva_given' = TRUE
       \/ iva_rate' = 0 /\ iva_given' = FALSE
    /\ pc' = "contactos"
    /\ UNCHANGED << harness, dashboard, sales_df, user_df, contactos, ventas, datos, reports, error >>

\* self.contactos = self._procesar_contactos(user_df)
ProcesarContactos ==
    /\ pc = "contactos"
    /\ LET r == _procesar_contactos(user_df)
       IN  IF r.err # "none"
           THEN Fail(r.err) /\ UNCHANGED contactos
           ELSE contactos' = r.val /\ pc' = "ventas" /\ UNCHANGED error
    /\ UNCHANGED << harness, dashboard, sales_df, user_df, iva_rate, iva_given, ventas, datos, reports >>

\* self.ventas = self._procesar_ventas(sales_df)
ProcesarVentas ==
    /\ pc = "ventas"
    /\ LET r == _procesar_ventas(sales_df, contactos)
       IN  IF r.err # "none"
           THEN Fail(r.err) /\ UNCHANGED ventas
           ELSE ventas' = r.val /\ pc' = "rate" /\ UNCHANGED error
    /\ UNCHANGED << harness, dashboard, sales_df, user_df, iva_rate, iva_given, contactos, datos, reports >>

\* self._aplicar_subsidios_y_comisiones()
\* iva_rate / 100 raises TypeError in the first line rated when iva_rate is
\* not a number; with no line to rate nothing is evaluated
AplicarSubsidios ==
    /\ pc = "rate"
    /\ IF ~iva_given /\ ventas # << >>
       THEN Fail("TypeError") /\ UNCHANGED ventas
       ELSE /\ ventas' = _aplicar_subsidios_y_comisiones(ventas, iva_rate)
            /\ pc' = "dataframe"
            /\ UNCHANGED error
    /\ UNCHANGED << harness, dashboard, sales_df, user_df, iva_rate, iva_given, contactos, datos, reports >>

\* self.datos = self._crear_dataframe()
CrearDataframe ==
    /\ pc = "dataframe"
    /\ datos' = _crear_dataframe(ventas)
    /\ pc' = "etiquetas"
    /\ UNCHANGED << harness, dashboard, sales_df, user_df, iva_rate, iva_given, contactos, ventas, error, reports >>

\* self.etiquetas_fila = self._generar_etiquetas_fila(self.datos)
GenerarEtiquetasFila ==
    /\ pc = "etiquetas"
    /\ etiquetas_fila' = _generar_etiquetas_fila(datos)
    /\ pc' = "facturacion"
    /\ UNCHANGED << harness, dashboard, sales_df, user_df, iva_rate, iva_given, contactos, ventas, error, datos, facturacion,
                    comisiones_no_subsidiadas, reportes_individuales >>

\* self.facturacion = self._calcular_facturacion()
CalcularFacturacion ==
    /\ pc = "facturacion"
    /\ facturacion' = _calcular_facturacion(datos)
    /\ pc' = "comisiones"
    /\ UNCHANGED << harness, dashboard, sales_df, user_df, iva_rate, iva_given, contactos, ventas, error, datos, etiquetas_fila,
                    comisiones_no_subsidiadas, reportes_individuales >>

\* self.comisiones_no_subsidiadas = self._calcular_comisiones_no_subsidiadas()
CalcularComisionesNoSubsidiadas ==
    /\ pc = "comisiones"
    /\ comisiones_no_subsidiadas' = _calcular_comisiones_no_subsidiadas(datos)
    /\ pc' = "reportes"
    /\ UNCHANGED << harness, dashboard, sales_df, user_df, iva_rate, iva_given, contactos, ventas, error, datos, etiquetas_fila,
                    facturacion, reportes_individuales >>

\* self.reportes_individuales = self._generar_reportes_individuales()
GenerarReportesIndividuales ==
    /\ pc = "reportes"
    /\ reportes_individuales' = _generar_reportes_individuales(datos)
    /\ pc' = "done"
    /\ UNCHANGED << harness, dashboard, sales_df, user_df, iva_rate, iva_given, contactos, ventas, error, datos, etiquetas_fila,
                    facturacion, comisiones_no_subsidiadas >>

Next ==
    \/ LoadSaleRow
    \/ LoadUserRow
    \/ DropSalesColumn
    \/ DropUserColumn
    \/ Construct
    \/ ProcesarContactos
    \/ ProcesarVentas
    \/ AplicarSubsidios
    \/ CrearDataframe
    \/ GenerarEtiquetasFila
    \/ CalcularFacturacion
    \/ CalcularComisionesNoSubsidiadas
    \/ GenerarReportesIndividuales

Spec == Init /\ [][Next]_vars

\* ------------------------------------------------------------------------
\* The functions of the engine, each called on its own
\* ------------------------------------------------------------------------
UserTable(rows) == [columns |-> UserColumns, rows |-> rows]
SalesTable(rows) == [columns |-> SalesColumns, rows |-> rows]

Calls ==
    { [fn |-> "_normalize_name", name |-> n] : n \in SeqUpTo(NameAlphabet, MaxNameLen) }
    \cup { [fn |-> "_procesar_contactos", users |-> u] : u \in SeqUpTo(RosterRows, MaxRoster) }
    \cup { [fn |-> "aplicar_subsidios_y_comisiones", row |-> r, users |-> u, iva_rate |-> i] :
              r \in LineRows, u \in SeqUpTo(RosterRows, MaxRoster), i \in IVA_RATES }
    \cup { [fn |-> "_crear_dataframe", sales |-> t] : t \in SeqUpTo(TableRows, MaxTable) }

CallInit == EngineIdle /\ DashboardIdle /\ call \in Calls /\ result = NotCalled

\* Contacto._normalize_name(name)
CallNormalizeName ==
    /\ call.fn = "_normalize_name"
    /\ result = NotCalled
    /\ result' = Ok(_normalize_name(call.name))
    /\ UNCHANGED << engine, dashboard, call >>

\* ReporteVentas._procesar_contactos(user_df)
CallProcesarContactos ==
    /\ call.fn = "_procesar_contactos"
    /\ result = NotCalled
    /\ result' = _procesar_contactos(UserTable(call.users))
    /\ UNCHANGED << engine, dashboard, call >>

\* Venta.aplicar_subsidios_y_comisiones(iva_rate) on the Venta of one row,
\* as ReporteVentas creates and rates it
CallAplicarSubsidios ==
    /\ call.fn = "aplicar_subsidios_y_comisiones"
    /\ result = NotCalled
    /\ LET r == ReporteVentas(SalesTable(<< call.row >>), UserTable(call.users),
                              call.iva_rate)
       IN  result' = IF r.err # "none" THEN r ELSE Ok(r.val.ventas)
    /\ UNCHANGED << engine, dashboard, call >>

\* ReporteVentas._crear_dataframe() on the lines of a table, rated at 0%
CallCrearDataframe ==
    /\ call.fn = "_crear_dataframe"
    /\ result = NotCalled
    /\ LET r == ReporteVentas(SalesTable(call.sales), UserTable(<< >>), 0)
       IN  result' = IF r.err # "none" THEN r ELSE Ok(r.val.datos)
    /\ UNCHANGED << engine, dashboard, call >>

CallNext ==
    \/ CallNormalizeName
    \/ CallProcesarContactos
    \/ CallAplicarSubsidios
    \/ CallCrearDataframe

CallSpec == CallInit /\ [][CallNext]_vars

\* ------------------------------------------------------------------------
\* main(): one browser session of the dashboard
\*
\* Streamlit runs main() from the top for every event of the page.  An event
\* that arrives while a run is under way ends that run at its next call of
\* an st.* element and starts a new one; what the ended run wrote to
\* st.session_state stays.  st.rerun() ends the run and starts a new one.
\* ------------------------------------------------------------------------
ADMIN_USERNAME == "admin"
ADMIN_PASSWORD == "admin123"

\* hashlib.sha256(x.encode()).hexdigest(): one digest per text
sha256(x) == << "sha256", x >>

ADMIN_PASSWORD_HASH == sha256(ADMIN_PASSWORD)

\* check_login that compares the user name only
check_login_AnyPassword(username, password) == username = ADMIN_USERNAME

\* check_login
check_login(username, password) ==
    LET hashed_password == sha256(password)
    IN  username = ADMIN_USERNAME /\ hashed_password = ADMIN_PASSWORD_HASH

\* what the user types into the login form
Usernames == { "admin", "guest" }
Passwords == { "admin123", "1234" }

\* the pair of tables that load_data returns
Tables(sales, users) == [k |-> "tables", sales_df |-> sales, user_df |-> users]

\* the files on disk: a lunch and a drink with a roster, a table with a
\* total that is not a number, or no readable files
Datasets ==
    { Tables(SalesTable(<< RowLunch, RowDrink >>), UserTable(<< UserAna >>)),
      Tables(SalesTable(<< RowVisitorLunch >>), UserTable(<< >>)),
      Tables(SalesTable(<< RowBadTotal >>), UserTable(<< >>)) }

DashboardInit ==
    /\ EngineIdle
    /\ HarnessIdle
    /\ session_state = << >>
    /\ iva_rate_select = NoWidget
    /\ at = "idle"
    /\ click = NoClick
    /\ view = "none"
    /\ files \in Datasets \cup { NoFiles }
    /\ load_data_cache = NotLoaded
    /\ initialize_reporte_cache = << >>
    /\ builds = << >>
    /\ reporte = Unbound

\* st.session_state.<key> = value
Put(state, key, value) == (key :> value) @@ state

\* a new run of main() starts; its local variables are unbound
StartRun ==
    /\ at' = "start"
    /\ reporte' = Unbound

\* ---- events of the page ----
\* the page is opened in a browser: a session with an empty state
OpenSession ==
    /\ session_state' = << >>
    /\ iva_rate_select' = NoWidget
    /\ click' = NoClick
    /\ view' = "none"
    /\ StartRun
    /\ UNCHANGED << engine, harness, files, load_data_cache,
                    initialize_reporte_cache, builds >>

\* "Iniciar Sesion" is pressed with a user name and a password typed in
PressLogin ==
    /\ view = "login"
    /\ \E u \in Usernames, p \in Passwords :
          click' = [button |-> "login", username |-> u, password |-> p]
    /\ StartRun
    /\ UNCHANGED << engine, harness, session_state, iva_rate_select, view, files,
                    load_data_cache, initialize_reporte_cache, builds >>

\* "Cerrar Sesion" is pressed
PressLogout ==
    /\ view = "logout"
    /\ click' = [button |-> "logout"]
    /\ StartRun
    /\ UNCHANGED << engine, harness, session_state, iva_rate_select, view, files,
                    load_data_cache, initialize_reporte_cache, builds >>

\* "Limpiar Estado de Sesion" is pressed
PressClear ==
    /\ view = "logout"
    /\ click' = [button |-> "clear"]
    /\ StartRun
    /\ UNCHANGED << engine, harness, session_state, iva_rate_select, view, files,
                    load_data_cache, initialize_reporte_cache, builds >>

\* another rate is chosen in the select box that the page shows
SelectIva ==
    /\ iva_rate_select # NoWidget
    /\ \E r \in IVA_RATES \ { iva_rate_select.value } :
          iva_rate_select' = [iva_rate_select EXCEPT !.value = r]
    /\ click' = NoClick
    /\ StartRun
    /\ UNCHANGED << engine, harness, session_state, view, files,
                    load_data_cache, initialize_reporte_cache, builds >>

\* ---- main(), block by block ----
\* the run returns or ends with an exception; a widget that the run did not
\* show is removed with its value
EndRun(rendered_select) ==
    /\ at' = "idle"
    /\ iva_rate_select' = IF rendered_select THEN iva_rate_select ELSE NoWidget

\* lines 555-563
RunStart ==
    /\ at = "start"
    /\ session_state' = IF "logged_in" \in DOMAIN session_state THEN session_state
                        ELSE Put(session_state, "logged_in", FALSE)
    /\ at' = "login_tab"
    /\ UNCHANGED << engine, harness, iva_rate_select, click, view, files,
                    load_data_cache, initialize_reporte_cache, builds, reporte >>

\* lines 565-590: the Login tab
RunLoginTab ==
    /\ at = "login_tab"
    /\ IF ~session_state.logged_in
       THEN /\ view' = "login"
            /\ IF click.button = "login" /\ check_login(click.username, click.password)
               THEN /\ session_state' = Put(session_state, "logged_in", TRUE)
                    /\ click' = NoClick
                    /\ at' = "start"          \* st.rerun()
               ELSE /\ at' = "gate"           \* st.error, or no button pressed
                    /\ UNCHANGED << session_state, click >>
            /\ UNCHANGED iva_rate_select
       ELSE /\ view' = "logout"
            /\ CASE click.button = "logout" ->
                      /\ session_state' = Put(session_state, "logged_in", FALSE)
                      /\ click' = NoClick
                      /\ at' = "start"
                      /\ UNCHANGED iva_rate_select
                 [] click.button = "clear" ->
                      \* every key is deleted, the key of the select box too
                      /\ session_state' = Put(<< >>, "logged_in", TRUE)
                      /\ iva_rate_select' = NoWidget
                      /\ click' = NoClick
                      /\ at' = "start"
                 [] OTHER ->
                      /\ at' = "gate"
                      /\ UNCHANGED << session_state, click, iva_rate_select >>
    /\ UNCHANGED << engine, harness, files, load_data_cache,
                    initialize_reporte_cache, builds, reporte >>

\* lines 592-593
RunGate ==
    /\ at = "gate"
    /\ IF ~session_state.logged_in
       THEN EndRun(FALSE)
       ELSE at' = "load" /\ UNCHANGED iva_rate_select
    /\ UNCHANGED << engine, harness, session_state, click, view, files,
                    load_data_cache, initialize_reporte_cache, builds, reporte >>

\* load_data(): read once, then answered from the memo
load_data == IF load_data_cache # NotLoaded THEN load_data_cache
             ELSE IF files = NoFiles THEN None ELSE files

\* lines 595-602
RunLoadData ==
    /\ at = "load"
    /\ IF "loaded_data" \notin DOMAIN session_state
       THEN /\ session_state' = Put(session_state, "loaded_data", load_data)
            /\ load_data_cache' = load_data
       ELSE UNCHANGED << session_state, load_data_cache >>
    /\ IF session_state'.loaded_data = None
       THEN EndRun(FALSE)
       ELSE at' = "select" /\ UNCHANGED iva_rate_select
    /\ UNCHANGED << engine, harness, click, view, files,
                    initialize_reporte_cache, builds, reporte >>

\* lines 604-613: the select box is a widget of the index it is created
\* with; it returns the option of that index until another is chosen in it
RunSelectIva ==
    /\ at = "select"
    /\ LET rate == IF "iva_rate" \in DOMAIN session_state
                   THEN session_state.iva_rate ELSE 0
           selected_iva == IF iva_rate_select.id = rate
                           THEN iva_rate_select.value ELSE rate
       IN  /\ iva_rate_select' = [id |-> rate, value |-> selected_iva]
           /\ IF selected_iva # rate
              THEN /\ session_state' =
                          Put(Put(session_state, "iva_rate", selected_iva),
                              "reporte", None)
                   /\ at' = "start"           \* st.rerun()
              ELSE /\ session_state' = Put(session_state, "iva_rate", rate)
                   /\ at' = "build"
    /\ UNCHANGED << engine, harness, click, view, files, load_data_cache,
                    initialize_reporte_cache, builds, reporte >>

\* the arguments of initialize_reporte, which key its memo
CacheKey(tables, rate) == << tables.sales_df, tables.user_df, rate >>

\* the memo holds a report for the arguments
CacheHit(key) == key \in DOMAIN initialize_reporte_cache

\* the memo answers a hit with a report it holds, whatever its arguments
Cached_AnyEntry(key) ==
    initialize_reporte_cache[CHOOSE k \in DOMAIN initialize_reporte_cache : TRUE]

\* the report that the memo answers a hit with
Cached(key) == initialize_reporte_cache[key]

\* lines 615-618, with initialize_reporte (lines 455-458)
RunInitializeReporte ==
    /\ at = "build"
    /\ IF \/ "reporte" \notin DOMAIN session_state
          \* iva_rate != session_state.get('last_iva_rate'), None when absent
          \/ "last_iva_rate" \notin DOMAIN session_state
          \/ session_state.iva_rate # session_state.last_iva_rate
       THEN LET key == CacheKey(session_state.loaded_data, session_state.iva_rate)
                fresh == ReporteVentas(key[1], key[2], key[3])
                Assign(r) ==
                    /\ session_state' =
                           Put(Put(session_state, "reporte", r),
                               "last_iva_rate", session_state.iva_rate)
                    /\ at' = "read"
                    /\ UNCHANGED iva_rate_select
            IN  IF CacheHit(key)
                THEN /\ Assign(Cached(key))
                     /\ UNCHANGED << initialize_reporte_cache, builds >>
                ELSE IF fresh.err = "none"
                THEN /\ initialize_reporte_cache' =
                            (key :> fresh.val) @@ initialize_reporte_cache
                     /\ builds' = (key :> 1 + (IF key \in DOMAIN builds
                                               THEN builds[key] ELSE 0)) @@ builds
                     /\ Assign(fresh.val)
                ELSE \* ReporteVentas raises: the run ends, nothing is kept
                     /\ EndRun(TRUE)
                     /\ UNCHANGED << session_state, initialize_reporte_cache, builds >>
       ELSE /\ at' = "read"
            /\ UNCHANGED << session_state, iva_rate_select,
                            initialize_reporte_cache, builds >>
    /\ UNCHANGED << engine, harness, click, view, files, load_data_cache, reporte >>

\* lines 619-620: reporte = st.session_state.reporte; reporte.datos raises
\* AttributeError on None, which ends the run; the rest of main() draws the
\* tabs from reporte
RunReadReporte ==
    /\ at = "read"
    /\ reporte' = session_state.reporte
    /\ EndRun(TRUE)
    /\ UNCHANGED << engine, harness, session_state, click, view, files,
                    load_data_cache, initialize_reporte_cache, builds >>

DashboardNext ==
    \/ OpenSession
    \/ PressLogin
    \/ PressLogout
    \/ PressClear
    \/ SelectIva
    \/ RunStart
    \/ RunLoginTab
    \/ RunGate
    \/ RunLoadData
    \/ RunSelectIva
    \/ RunInitializeReporte
    \/ RunReadReporte

DashboardSpec == DashboardInit /\ [][DashboardNext]_vars

\* ------------------------------------------------------------------------
\* Vocabulary of the properties
\* ------------------------------------------------------------------------
Rows == sales_df.rows

\* the (order id, client label, product) cells of an input row
Triple(r) == << r.orden, r.cliente, r.producto >>

\* the input rows that _procesar_ventas kept
KeptRows == { ventas[k].row : k \in 1..Len(ventas) }

\* the lines have been rated
Rated ==
    pc \in {"dataframe", "etiquetas", "facturacion", "comisiones", "reportes", "done"}

\* the first segment of a client label with the 'ASEAVNA ' prefix removed
LabelCategory(cliente) ==
    LET first == Split(cliente, sCommaSpace)[1]
    IN  IF StartsWithAt(first, 1, sASEAVNA_)
        THEN SubSeq(first, Len(sASEAVNA_) + 1, Len(first))
        ELSE first

\* the normalized buyer name of a client label
BuyerKey(cliente) == _normalize_name(LabelName(cliente))

RuledLunch(d) == d.is_subsidized /\ d.tipo \in DOMAIN SUBSIDY_RULES

\* ------------------------------------------------------------------------
\* Properties
\* ------------------------------------------------------------------------
\* C1: the rated table has at most one row per (order id, client label,
\* product) triple, and the row kept for a triple is the first row with that
\* triple, in input order, among the rows that were not rejected; the kept
\* row carries that row's own values.
C1_FirstSeenWins ==
    pc = "done" =>
        /\ \A a, b \in 1..Len(datos) :
              a # b => Triple(Rows[datos[a].row]) # Triple(Rows[datos[b].row])
        /\ \A a \in 1..Len(datos) :
              /\ datos[a].row \in KeptRows
              /\ \A j \in KeptRows :
                    Triple(Rows[j]) = Triple(Rows[datos[a].row]) => datos[a].row <= j
              /\ datos[a].quantity = FloatOrZero(Rows[datos[a].row].cantidad, 1)

\* two kept rows of the same triple with different quantities: the table
\* holds one row for the triple, the first of the two
C1_Witness ==
    /\ pc = "done"
    /\ \E j, k \in 1..Len(Rows) :
          /\ j < k
          /\ Triple(Rows[j]) = Triple(Rows[k])
          /\ j \in KeptRows /\ k \in KeptRows
          /\ Rows[j].cantidad # Rows[k].cantidad
          /\ \E a \in 1..Len(datos) : datos[a].row = j
          /\ \A a \in 1..Len(datos) : datos[a].row # k

\* C2: a row is in the rated table only if its order date parsed in the
\* format YYYY-MM-DD HH:MM:SS and its total is neither absent nor zero.
C2_OnlyValidRows ==
    pc = "done" =>
        \A a \in 1..Len(datos) :
            LET r == Rows[datos[a].row]
            IN  /\ r.fecha.k = "ok"
                /\ notna(r.total)
                /\ ~(r.total.k = "num" /\ r.total.v = 0)

\* C3: for every rated line of the subsidized product whose category has a
\* rule, subsidy + employee_payment equals the total after rating, and so
\* the sums over those lines of the rated table agree.
C3_SubsidyPlusPaymentIsTotal ==
    /\ Rated =>
          \A k \in 1..Len(ventas) :
              RuledLunch(ventas[k]) =>
                  ventas[k].subsidy + ventas[k].employee_payment = ventas[k].total
    /\ pc = "done" =>
          LET ls == SelectSeq(datos, RuledLunch)
          IN  Sum([i \in 1..Len(ls) |-> ls[i].subsidy])
                + Sum([i \in 1..Len(ls) |-> ls[i].employee_payment])
              = Sum([i \in 1..Len(ls) |-> ls[i].total])

\* a ruled lunch whose input total was not the list price
C3_Witness ==
    /\ pc = "done"
    /\ \E a \in 1..Len(datos) :
          /\ RuledLunch(datos[a])
          /\ Rows[datos[a].row].total.v # ListPrice
          /\ datos[a].subsidy > 0

\* C4: for every rated line of another product than the subsidized one, at
\* any tax rate: subsidy is 0, employee_payment is the total,
\* employee_payment_base is the base price, and the commission is 5% of the
\* total.
C4_NonSubsidizedLine ==
    Rated =>
        \A k \in 1..Len(ventas) :
            ~ventas[k].is_subsidized =>
                /\ ventas[k].subsidy = 0
                /\ ventas[k].employee_payment = ventas[k].total
                /\ ventas[k].employee_payment_base = ventas[k].base_price
                /\ ventas[k].asoavna_commission * 100 = ventas[k].total * 5

\* a rated drink at 13%
C4_Witness ==
    /\ Rated
    /\ iva_rate = 13
    /\ \E k \in 1..Len(ventas) :
          ~ventas[k].is_subsidized /\ ventas[k].asoavna_commission > 0

\* C5: for every rated line at tax rate r, base_price * (1 + r/100) = total
\* and base_price + tax = total, with the total after rating; at r = 0 the
\* tax is 0 and the base price is the total.
C5_TaxSplit ==
    Rated =>
        \A k \in 1..Len(ventas) :
            /\ ventas[k].base_price * (100 + iva_rate) = ventas[k].total * 100
            /\ ventas[k].base_price + ventas[k].iva = ventas[k].total
            /\ iva_rate = 0 =>
                  ventas[k].iva = 0 /\ ventas[k].base_price = ventas[k].total

\* a lunch whose total was overridden, rated at 13%
C5_Witness ==
    /\ Rated
    /\ iva_rate = 13
    /\ \E k \in 1..Len(ventas) :
          /\ ventas[k].is_subsidized
          /\ ventas[k].total # FloatOrZero(Rows[ventas[k].row].total, Scale)
          /\ ventas[k].iva > 0

\* C6: a line of the subsidized product whose category has no rule is rated
\* as a non-subsidized line: subsidy 0, employee_payment = total and
\* commission = 5% of total.
C6_RuleMissAsNonSubsidized ==
    Rated =>
        \A k \in 1..Len(ventas) :
            (ventas[k].is_subsidized /\ ventas[k].tipo \notin DOMAIN SUBSIDY_RULES) =>
                /\ ventas[k].subsidy = 0
                /\ ventas[k].employee_payment = ventas[k].total
                /\ ventas[k].asoavna_commission * 100 = ventas[k].total * 5

\* C7: a classified line whose normalized buyer name is in the directory has
\* the contact's category, ID, position and name; one whose buyer is not in
\* the directory has the category parsed from the label.
C7_ContactOverrides ==
    pc \in {"rate", "dataframe", "done"} =>
        \A k \in 1..Len(ventas) :
            LET v == ventas[k]
                key == BuyerKey(v.cliente)
            IN  IF key \in DOMAIN contactos
                THEN /\ v.tipo = contactos[key].tipo
                     /\ v.cedula = contactos[key].cedula
                     /\ v.position = contactos[key].puesto
                     /\ v.name = contactos[key].nombre
                ELSE v.tipo = LabelCategory(v.cliente)

\* C7 as amended: the category is the contact's unless the roster gives the
\* contact no category (the sentinel "Desconocido"); then it is the label's.
C7_ContactOverridesKnownCategory ==
    pc \in {"rate", "dataframe", "done"} =>
        \A k \in 1..Len(ventas) :
            LET v == ventas[k]
                key == BuyerKey(v.cliente)
            IN  IF key \in DOMAIN contactos
                THEN /\ v.tipo = IF contactos[key].tipo # sDesconocido
                                 THEN contactos[key].tipo
                                 ELSE LabelCategory(v.cliente)
                     /\ v.cedula = contactos[key].cedula
                     /\ v.position = contactos[key].puesto
                     /\ v.name = contactos[key].nombre
                ELSE v.tipo = LabelCategory(v.cliente)

\* a line of a roster contact whose category and name differ from the label's
C7_Witness ==
    /\ pc \in {"rate", "dataframe", "done"}
    /\ \E k \in 1..Len(ventas) :
          LET v == ventas[k]
              key == BuyerKey(v.cliente)
          IN  /\ key \in DOMAIN contactos
              /\ contactos[key].tipo # sDesconocido
              /\ v.tipo # LabelCategory(v.cliente)
              /\ v.cedula # sDesconocido

\* C8: for every transaction whose normalized buyer name is not a key of the
\* directory, classification raises no error and the record has ID
\* "Desconocido", position "No especificado" and the label's category.
C8_FallbackContact ==
    (pc = "ventas" /\ SalesColumns \subseteq sales_df.columns) =>
        \A i \in 1..Len(Rows) :
            (/\ TotalPasses(Rows[i])
             /\ notna(Rows[i].cliente)
             /\ BuyerKey(Rows[i].cliente.s) \notin DOMAIN contactos) =>
                LET r == create_venta(Rows[i], i, contactos)
                IN  /\ r.err = "none"
                    /\ r.val.cedula = sDesconocido
                    /\ r.val.position = sNoEspecificado
                    /\ r.val.tipo = LabelCategory(Rows[i].cliente.s)

\* C9: a table that lacks a required column, with or without rows, makes
\* the construction fail with the schema error before any line is rated.
C9_SchemaError ==
    (/\ \/ UserColumns \ user_df.columns # {}
        \/ SalesColumns \ sales_df.columns # {}
     /\ pc \notin {"input", "contactos", "ventas"}) =>
        pc = "failed" /\ error = "ValueError"

\* C10: with all required columns in both tables, the construction does not
\* fail on the content of a transaction row.
C10_RowsNeverAbort ==
    (/\ UserColumns \subseteq user_df.columns
     /\ SalesColumns \subseteq sales_df.columns) =>
        pc # "failed"

\* the subsidized rows of the rated table whose bucket is key, and all its
\* rows of that bucket
SubsidizedOf(key) ==
    SelectSeq(datos, LAMBDA d : d.is_subsidized /\ BucketKey(d) = key)

AllOf(key) == SelectSeq(datos, LAMBDA d : BucketKey(d) = key)

\* the sum over the rows of a table of column col times the quantity
LineSum(rows, col) ==
    Sum([k \in 1..Len(rows) |-> rows[k][col] * rows[k].quantity])

\* C11: rating with a missing or malformed tax rate raises no error and
\* gives every line the result of a tax rate of 0: tax = 0 and
\* base_price = total.
C11_MissingRateAsZero ==
    ~iva_given =>
        /\ ~(pc = "failed" /\ error = "TypeError")
        /\ Rated => \A i \in 1..Len(ventas) :
                        ventas[i].iva = 0 /\ ventas[i].base_price = ventas[i].total

\* C12: with a nonzero tax rate, total_subsidy + total_employee_payment +
\* total_iva of the billing equals the sum of total x quantity over the
\* subsidized rows of the rated table.
C12_Reconciliation ==
    (pc = "done" /\ iva_rate # 0) =>
        facturacion.total_subsidy + facturacion.total_employee_payment
            + facturacion.total_iva
        = LineSum(SelectSeq(datos, LAMBDA d : d.is_subsidized), "total")

\* C13: total_commission of the billing equals total_commission_subsidized,
\* which is the sum of the commissions of the three buckets, plus the grand
\* total of the table of non-subsidized commissions.
C13_CommissionAdditive ==
    pc = "done" =>
        /\ facturacion.total_commission_subsidized
           = facturacion.facturacion[sBEN1_70].commission
             + facturacion.facturacion[sBEN2_62].commission
             + facturacion.facturacion[sOtros].commission
        /\ facturacion.total_commission
           = facturacion.total_commission_subsidized
             + comisiones_no_subsidiadas.total_comision

\* a batch with commission on both sides of the partition
C13_Witness ==
    /\ pc = "done"
    /\ facturacion.total_commission_subsidized > 0
    /\ comisiones_no_subsidiadas.total_comision > 0

\* C14 as stated: each bucket sums count, subsidy, employee payment and tax
\* over the subsidized rows of its category, and its commission over all
\* the rows of its category, subsidized or not.
C14_BucketCommissionOfAll ==
    pc = "done" =>
        \A key \in BucketKeys :
            LET b == facturacion.facturacion[key]
            IN  /\ b.count = Sum([k \in 1..Len(SubsidizedOf(key)) |->
                                     SubsidizedOf(key)[k].quantity])
                /\ b.subsidy = LineSum(SubsidizedOf(key), "subsidy")
                /\ b.employee_payment
                   = LineSum(SubsidizedOf(key), "employee_payment_base")
                /\ b.iva = LineSum(SubsidizedOf(key), "iva")
                /\ b.commission = LineSum(AllOf(key), "asoavna_commission")

\* C14, amended: each bucket sums the quantity as count, and the subsidy,
\* the pre-tax employee payment, the tax and the commission, each times the
\* quantity, over the subsidized rows of its category only; the commission
\* of the rows that are not subsidized enters total_commission alone.
C14_BucketOfSubsidized ==
    pc = "done" =>
        /\ \A key \in BucketKeys :
              LET b == facturacion.facturacion[key]
              IN  /\ b.count = Sum([k \in 1..Len(SubsidizedOf(key)) |->
                                       SubsidizedOf(key)[k].quantity])
                  /\ b.subsidy = LineSum(SubsidizedOf(key), "subsidy")
                  /\ b.employee_payment
                     = LineSum(SubsidizedOf(key), "employee_payment_base")
                  /\ b.iva = LineSum(SubsidizedOf(key), "iva")
                  /\ b.commission
                     = LineSum(SubsidizedOf(key), "asoavna_commission")
        /\ facturacion.total_commission = LineSum(datos, "asoavna_commission")

\* a category with a subsidized row and a row that is not subsidized, both
\* with a commission
C14_Witness ==
    /\ pc = "done"
    /\ \E key \in BucketKeys :
          /\ LineSum(SubsidizedOf(key), "asoavna_commission") > 0
          /\ LineSum(AllOf(key), "asoavna_commission")
             > LineSum(SubsidizedOf(key), "asoavna_commission")

\* the summed subsidy and the denominator of the percentage of a bucket
BucketSubsidy(key) == facturacion.facturacion[key].subsidy

BucketDenominator(key) ==
    facturacion.facturacion[key].subsidy
        + facturacion.facturacion[key].employee_payment

\* the fraction p is subsidy / denominator * 100, for a denominator that is
\* not 0: cross-multiplied, after the common factor of the two sums is
\* taken out
IsPercentageOf(p, subsidy, denominator) ==
    LET g == GCD(subsidy, IF denominator < 0 THEN -denominator ELSE denominator)
    IN  /\ p.den # 0
        /\ p.num * (denominator \div g) = (subsidy \div g) * 100 * p.den

\* C15 as stated: the percentage of BEN1_70 and of BEN2_62 is
\* subsidy / (subsidy + employee_payment) * 100 of the sums of the bucket,
\* and 0 when that denominator is 0.
C15_PercentageUnlessZero ==
    pc = "done" =>
        /\ IF BucketDenominator(sBEN1_70) = 0
           THEN facturacion.subsidy_percentage_ben1.num = 0
           ELSE IsPercentageOf(facturacion.subsidy_percentage_ben1,
                               BucketSubsidy(sBEN1_70), BucketDenominator(sBEN1_70))
        /\ IF BucketDenominator(sBEN2_62) = 0
           THEN facturacion.subsidy_percentage_ben2.num = 0
           ELSE IsPercentageOf(facturacion.subsidy_percentage_ben2,
                               BucketSubsidy(sBEN2_62), BucketDenominator(sBEN2_62))

\* C15, amended: the percentage is subsidy / (subsidy + employee_payment)
\* * 100 of the sums of the bucket when that denominator is positive, and 0
\* when it is zero or negative, at every tax rate.
C15_PercentageWhenPositive ==
    pc = "done" =>
        /\ facturacion.subsidy_percentage_ben1.den # 0
        /\ facturacion.subsidy_percentage_ben2.den # 0
        /\ IF BucketDenominator(sBEN1_70) > 0
           THEN IsPercentageOf(facturacion.subsidy_percentage_ben1,
                               BucketSubsidy(sBEN1_70), BucketDenominator(sBEN1_70))
           ELSE facturacion.subsidy_percentage_ben1.num = 0
        /\ IF BucketDenominator(sBEN2_62) > 0
           THEN IsPercentageOf(facturacion.subsidy_percentage_ben2,
                               BucketSubsidy(sBEN2_62), BucketDenominator(sBEN2_62))
           ELSE facturacion.subsidy_percentage_ben2.num = 0

\* at the rate of 13, one category with a positive denominator and a
\* percentage, the other with a denominator of 0
C15_Witness ==
    /\ pc = "done"
    /\ iva_rate = 13
    /\ BucketDenominator(sBEN2_62) > 0
    /\ facturacion.subsidy_percentage_ben2.num > 0
    /\ BucketDenominator(sBEN1_70) = 0

\* the kinds of rows of the row-labeled report
IsTotalRow(r) == r.Empleado = sTotalGeneral /\ r.Cantidad # Blank
IsHeaderRow(r) == r.Cantidad = Blank
IsPlaceholderRow(r) == r.Producto = sEnBlanco /\ ~IsTotalRow(r)
IsDataRow(r) == ~IsHeaderRow(r) /\ ~IsTotalRow(r)

\* the sum of a column over the data rows of the report, placeholders included
ColumnSum(col) ==
    Sum([k \in 1..Len(etiquetas_fila) |->
            IF IsDataRow(etiquetas_fila[k]) THEN etiquetas_fila[k][col].v ELSE 0])

\* C16: the 'Total general' row of a row-labeled report carries, as
\* quantity, client amount and subsidized amount, the sum of the column over
\* all the data rows of the report: headers excluded, placeholders adding 0.
C16_GrandTotal ==
    (pc = "done" /\ etiquetas_fila # << >>) =>
        LET t == etiquetas_fila[Len(etiquetas_fila)]
        IN  /\ IsTotalRow(t)
            /\ t.Cantidad = N(ColumnSum("Cantidad"))
            /\ t.MontoCliente = N(ColumnSum("MontoCliente"))
            /\ t.MontoSubsidiado = N(ColumnSum("MontoSubsidiado"))
            /\ \A k \in 1..Len(etiquetas_fila) :
                  IsPlaceholderRow(etiquetas_fila[k]) =>
                      /\ etiquetas_fila[k].Cantidad = N(0)
                      /\ etiquetas_fila[k].MontoCliente = N(0)
                      /\ etiquetas_fila[k].MontoSubsidiado = N(0)

\* a report with two groups that have amounts, one of them of a quantity
\* other than 1
C16_Witness ==
    /\ pc = "done"
    /\ \E a, b \in 1..Len(etiquetas_fila) :
          /\ a # b
          /\ IsDataRow(etiquetas_fila[a]) /\ IsDataRow(etiquetas_fila[b])
          /\ etiquetas_fila[a].MontoCliente.v > 0
          /\ etiquetas_fila[a].MontoSubsidiado.v > 0
          /\ etiquetas_fila[a].Cantidad.v > 1
          /\ etiquetas_fila[b].MontoCliente.v > 0

\* the rows of the rated table of a client label
ClientRows(client) == SelectSeq(datos, LAMBDA d : d.client = client)

InSeq(x, s) == \E k \in 1..Len(s) : s[k] = x

\* C17: the statement of each client label of the rated table has
\* total_client_credit = the sum of employee_payment and
\* total_aseavna_account = the sum of subsidy over the client's rows, and
\* its subsidized and non-subsidized subsets are disjoint and together hold
\* exactly the client's rows.
C17_ClientStatement ==
    pc = "done" =>
        /\ DOMAIN reportes_individuales = { datos[i].client : i \in 1..Len(datos) }
        /\ \A client \in DOMAIN reportes_individuales :
              LET r == reportes_individuales[client]
                  rows == ClientRows(client)
              IN  /\ r.total_client_credit
                     = Sum([k \in 1..Len(rows) |-> rows[k].employee_payment])
                  /\ r.total_aseavna_account
                     = Sum([k \in 1..Len(rows) |-> rows[k].subsidy])
                  /\ \A k \in 1..Len(rows) :
                        InSeq(rows[k], r.subsidized) # InSeq(rows[k], r.non_subsidized)
                  /\ Len(r.subsidized) + Len(r.non_subsidized) = Len(rows)

\* C18: the table of non-subsidized commissions has one row per row of the
\* rated table that is not subsidized and none for the others; each row
\* carries the total, base price, commission and tax of its transaction as
\* rated; the grand total is the sum of the commission column.
C18_CommissionTable ==
    pc = "done" =>
        LET rows == SelectSeq(datos, LAMBDA d : ~d.is_subsidized)
            t == comisiones_no_subsidiadas.comisiones
        IN  /\ Len(t) = Len(rows)
            /\ \A k \in 1..Len(t) :
                  /\ t[k].client = rows[k].client
                  /\ t[k].product = rows[k].product
                  /\ t[k].total = rows[k].total
                  /\ t[k].base_price = rows[k].base_price
                  /\ t[k].asoavna_commission = rows[k].asoavna_commission
                  /\ t[k].iva = rows[k].iva
            /\ comisiones_no_subsidiadas.total_comision
               = Sum([k \in 1..Len(t) |-> t[k].asoavna_commission])

\* the categories of the rated table, and the (client, product) groups and
\* the (display name, product) pairs of a category
DatosTipos == { datos[i].tipo : i \in 1..Len(datos) }

GroupsOfTipo(c) ==
    { << datos[i].client, datos[i].product >> :
        i \in { j \in 1..Len(datos) : datos[j].tipo = c } }

NamesOfTipo(c) ==
    { << datos[i].display_name, datos[i].product >> :
        i \in { j \in 1..Len(datos) : datos[j].tipo = c } }

Least(S) == CHOOSE j \in S : \A k \in S : j <= k

\* C19: the row-labeled report of a rated table that is not empty is, in
\* order: for each category present, in increasing order, one header row
\* followed by one data row per (client, product) group of the category;
\* then one zero placeholder row for each of BEN1_70, BEN2_62 and AVNA
\* VISITAS without a transaction; then one grand-total row, the last row.
C19_ReportLayout ==
    (pc = "done" /\ datos # << >>) =>
        LET L == etiquetas_fila
            n == Len(L)
            H == { i \in 1..n : IsHeaderRow(L[i]) }
            P == { i \in 1..n : IsPlaceholderRow(L[i]) }
            absent == { expected_tipos[k] : k \in 1..3 } \ DatosTipos
            End(i) == Least({ j \in H \cup P \cup {n} : j > i })
        IN  /\ n >= 1 /\ IsTotalRow(L[n])
            /\ \A i \in 1..(n - 1) : ~IsTotalRow(L[i])
            /\ 1 \in H
            /\ { L[i].Empleado : i \in H } = { sASEAVNA_ \o c : c \in DatosTipos }
            /\ Cardinality(H) = Cardinality(DatosTipos)
            /\ \A i, j \in H : i < j => StrLess(L[i].Empleado, L[j].Empleado)
            /\ \A i \in H :
                  LET c == CHOOSE c \in DatosTipos : L[i].Empleado = sASEAVNA_ \o c
                      block == (i + 1)..(End(i) - 1)
                  IN  /\ Cardinality(block) = Cardinality(GroupsOfTipo(c))
                      /\ { << L[k].Empleado, L[k].Producto >> : k \in block }
                         = NamesOfTipo(c)
            /\ \A i \in H, j \in P : i < j
            /\ \A j \in P : j + 1 \in P \cup {n}
            /\ { L[j].Empleado : j \in P } = { sASEAVNA_ \o t : t \in absent }
            /\ Cardinality(P) = Cardinality(absent)
            /\ \A j \in P : /\ L[j].Cantidad = N(0)
                            /\ L[j].MontoCliente = N(0)
                            /\ L[j].MontoSubsidiado = N(0)

\* two categories in the table, the later of the order first, and an
\* expected category without a transaction
C19_Witness ==
    /\ pc = "done"
    /\ Len(datos) = 2
    /\ StrLess(datos[2].tipo, datos[1].tipo)
    /\ \E k \in 1..Len(etiquetas_fila) : IsPlaceholderRow(etiquetas_fila[k])

\* a row that the specification rejects: the date did not parse in the
\* format, or the total is null or zero
SpecRejected(r) == r.fecha.k # "ok" \/ ~notna(r.total) \/ r.total = N(0)

\* C20: with a transaction table that is empty or whose rows are all
\* rejected, the construction raises no error, and the rated table, the
\* non-subsidized commission table, the per-client map and the row-labeled
\* report are empty and the buckets and totals of the billing are zero.
C20_EmptyLedger ==
    (/\ AllColumns
     /\ _procesar_contactos(user_df).err = "none"
     /\ iva_given
     /\ \A i \in 1..Len(Rows) : SpecRejected(Rows[i])) =>
        /\ pc # "failed"
        /\ pc = "done" =>
              /\ datos = << >>
              /\ etiquetas_fila = << >>
              /\ facturacion = _calcular_facturacion(<< >>)
              /\ comisiones_no_subsidiadas = [comisiones |-> << >>, total_comision |-> 0]
              /\ reportes_individuales = << >>

\* the data rows of the row-labeled report that carry the display name of a
\* client label
ReportRowsOf(client) ==
    SelectSeq(etiquetas_fila,
              LAMBDA r : IsDataRow(r) /\ r.Empleado = LabelName(client))

\* C28: for every client label of the rated table, the 'Suma de Monto
\* Cliente' of the client's data rows of the row-labeled report add up to the
\* total_client_credit of the client's statement, and the 'Suma de Monto
\* Subsidiado' to its total_aseavna_account.
C28_ReportsAgree ==
    pc = "done" =>
        \A client \in DOMAIN reportes_individuales :
            LET rows == ReportRowsOf(client)
                r == reportes_individuales[client]
            IN  /\ Sum([k \in 1..Len(rows) |-> rows[k].MontoCliente.v])
                   = r.total_client_credit
                /\ Sum([k \in 1..Len(rows) |-> rows[k].MontoSubsidiado.v])
                   = r.total_aseavna_account

\* the table without its last row
RowsBefore == SubSeq(Rows, 1, Len(Rows) - 1)

\* the last row of the table repeats the triple of an earlier row that was
\* not rejected
LastRowIsDuplicate ==
    /\ Len(Rows) >= 2
    /\ \E i \in 1..(Len(Rows) - 1) :
          /\ Triple(Rows[i]) = Triple(Rows[Len(Rows)])
          /\ ~SpecRejected(Rows[i])

\* C29: when the last row of the table repeats the triple of an earlier
\* row, the construction ends as it ends on the table without that row, and
\* the billing summary, the non-subsidized commission table, the per-client
\* statements and the row-labeled report are those of the table without it.
C29_DuplicateChangesNothing ==
    (AllColumns /\ iva_given /\ LastRowIsDuplicate) =>
        LET before == ReporteVentas(SalesTable(RowsBefore), user_df, iva_rate)
        IN  before.err = "none" =>
                /\ pc # "failed"
                /\ pc = "done" =>
                      /\ facturacion = before.val.facturacion
                      /\ comisiones_no_subsidiadas = before.val.comisiones_no_subsidiadas
                      /\ reportes_individuales = before.val.reportes_individuales
                      /\ etiquetas_fila = before.val.etiquetas_fila

\* ------------------------------------------------------------------------
\* Properties of the functions called on their own
\* ------------------------------------------------------------------------
Returned(fn) == call.fn = fn /\ result # NotCalled

\* the line rated is the subsidized product with total 3100 and quantity 1,
\* at 13%, and its buyer is a roster contact of category BEN1_70
C21_Scenario ==
    /\ Returned("aplicar_subsidios_y_comisiones")
    /\ call.iva_rate = 13
    /\ call.row.producto = T(sAlmuerzo)
    /\ call.row.total = N(3100)
    /\ call.row.cantidad = N(1)
    /\ LET c == _procesar_contactos(UserTable(call.users))
           key == BuyerKey(call.row.cliente.s)
       IN  /\ c.err = "none"
           /\ key \in DOMAIN c.val
           /\ c.val[key].tipo = sBEN1_70

C22_NormalizeIdempotent ==
    Returned("_normalize_name") => _normalize_name(result.val) = result.val

\* C25: rating leaves the total of a line equal to the total of its input
\* row unless the product is the subsidized product and a rule exists for
\* the category of the line.
C25_OverrideOnlyWithRule ==
    (Returned("aplicar_subsidios_y_comisiones") /\ result.err = "none") =>
        \A k \in 1..Len(result.val) :
            ~RuledLunch(result.val[k]) =>
                result.val[k].total = FloatOrZero(call.row.total, Scale)

\* the roster rows of the call that have a name: present and not white space
NamedRows ==
    { i \in 1..Len(call.users) :
        /\ call.users[i].Nombre.k = "str"
        /\ Strip(call.users[i].Nombre.s) # sEmpty }

NameKey(i) == _normalize_name(call.users[i].Nombre.s)

\* C26: the directory built from a roster has exactly the normalized names
\* of the rows that have a name as keys, rows without a name being skipped,
\* and under each key the contact of the last row with that normalized name.
C26_DirectoryOfNamedRows ==
    Returned("_procesar_contactos") =>
        /\ result.err = "none"
        /\ DOMAIN result.val = { NameKey(i) : i \in NamedRows }
        /\ \A i \in NamedRows :
              (\A j \in NamedRows : j > i => NameKey(j) # NameKey(i)) =>
                  LET u == call.users[i]
                  IN  result.val[NameKey(i)] =
                          Contacto(u.Nombre, u.Cedula, u.Puesto, u.Tipo)

\* C27: every (order id, client label, product) triple of a row of the
\* table that is not rejected has exactly one row in the rated table, so two
\* rows with different triples are never collapsed into one.
C27_DistinctTriplesKept ==
    (Returned("_crear_dataframe") /\ result.err = "none") =>
        \A i \in 1..Len(call.sales) :
            LET r == call.sales[i]
            IN  ~SpecRejected(r) =>
                    Cardinality({ k \in 1..Len(result.val) :
                        << T(result.val[k].order), T(result.val[k].client),
                           T(result.val[k].product) >> = Triple(r) }) = 1

\* ------------------------------------------------------------------------
\* Properties of the dashboard
\* ------------------------------------------------------------------------
\* every line of the report has the base price of its total at the rate
RatedAt(r, rate) ==
    /\ r.iva_rate = rate
    /\ \A k \in 1..Len(r.datos) :
          r.datos[k].base_price * (100 + rate) = r.datos[k].total * 100

\* C23: whenever main() has read the report for display, the report exists
\* and every line of it was rated with the tax rate that the session holds.
C23_DisplayedReportIsCurrent ==
    reporte # Unbound =>
        /\ reporte # None
        /\ RatedAt(reporte, session_state.iva_rate)

\* the report computed fresh from the arguments
Fresh(key) == ReporteVentas(key[1], key[2], key[3])

ValidCredentials(username, password) ==
    username = ADMIN_USERNAME /\ password = ADMIN_PASSWORD

LoggedIn == "logged_in" \in DOMAIN session_state /\ session_state.logged_in

\* the step loads the input tables, builds a report or reads one
TouchesData ==
    \/ load_data_cache' # load_data_cache
    \/ "loaded_data" \in DOMAIN session_state' \ DOMAIN session_state
    \/ initialize_reporte_cache' # initialize_reporte_cache
    \/ builds' # builds
    \/ reporte' # reporte /\ reporte' # Unbound

C30_Step ==
    /\ TouchesData => LoggedIn
    /\ (/\ click.button = "login"
        /\ ~ValidCredentials(click.username, click.password)
        /\ ~LoggedIn
        /\ "logged_in" \in DOMAIN session_state') => ~session_state'.logged_in
    /\ (RunLoginTab /\ LoggedIn /\ click.button = "clear") =>
          session_state' = Put(<< >>, "logged_in", TRUE)

\* C30: a step of the dashboard loads the input tables or builds or reads a
\* report only when logged_in is true; no step taken after a login attempt
\* with wrong credentials sets logged_in; and the run that clears the session
\* state leaves logged_in true, alone in the state.
C30_LoginGate == [][C30_Step]_vars

\* data was loaded and a report built, the user logged out, and an attempt
\* to log in with wrong credentials has been answered
C30_Witness ==
    /\ click.button = "login"
    /\ ~ValidCredentials(click.username, click.password)
    /\ at = "idle"
    /\ ~LoggedIn
    /\ load_data_cache # NotLoaded
    /\ initialize_reporte_cache # << >>

====
